---- MODULE Spec2Model ----
(***************************************************************************)
(* DumbWish (src/server.js): a wishlist kept as one JSON document          *)
(* (data/wishlist.json) next to the image files data/<id>.jpeg.            *)
(*                                                                         *)
(* Every request handler is an async function: the code between two        *)
(* awaits runs without interruption, and at an await any other request may *)
(* run.  One action of the model is one such stretch of code together with *)
(* the completion of the I/O it was waiting for.                           *)
(***************************************************************************)
EXTENDS Integers, Sequences, FiniteSets, TLC

(* ---------------------------------------------------------------- bounds *)
\* number of requests that can be in flight at the same time
NumReq == 2
\* Date.now() runs over 1..MaxClock
MaxClock == 2
\* a create is only started while the document holds fewer items than this
MaxItems == 2
\* overlapping requests are followed for this many requests,
RaceReqs == 3
\* requests that run one after the other for this many
SeqReqs == 4
\* the eventual answers are followed for this many overlapping requests
LiveReqs == 2
\* the sides of the decoded images lie within MaxSide of 1, of maxImageSize,
\* or are one of its first MaxSide multiples
MaxSide == 6

Procs == 1..NumReq
Ids   == 1..MaxClock

(* ------------------------------------------------------------ JS values *)
\* the value of a body field that was not sent
Undef  == "undefined"
\* a key that is not present in a serialized object
Absent == "absent"
\* the key dateUpdated is not present (the dates are clock values, from 1 on)
NoDate == 0

\* req.body.image: not sent, the empty string, or a reference string
ImgUndef == <<>>
ImgEmpty == <<"">>
\* the JS value null
Null     == <<"null">>

\* `/api/images/${id}.jpeg` (processImage's return value)
ImageUrl(id) == <<"/api/images/", id, ".jpeg">>

\* the file of the image store a reference resolves to (express.static(dataDir)
\* mounted at /api/images); 0 when the reference is null
RefFile(image) == IF Len(image) = 3 THEN image[2] ELSE 0

\* a title check that only catches the title that was not sent
FalsyUndef(s) == s = Undef

\* JS truthiness of a body string and of req.body.image
Falsy(s)    == s \in {Undef, ""}
FalsyImg(i) == i \in {ImgUndef, ImgEmpty}

(* -------------------------------------------------------- request inputs *)
\* req.body of create and update
Bodies ==
  { [title |-> "a", url |-> "u",   price |-> "p",   note |-> "n",   image |-> ImgUndef],
    [title |-> "",  url |-> "u",   price |-> Undef, note |-> Undef, image |-> ImgEmpty],
    [title |-> Undef, url |-> Undef, price |-> Undef, note |-> Undef, image |-> ImgUndef],
    [title |-> "b", url |-> Undef, price |-> "p",   note |-> Undef, image |-> ImageUrl(1)] }

NoBody == [title |-> Undef, url |-> Undef, price |-> Undef, note |-> Undef, image |-> ImgUndef]

\* the multipart part named "image": none, a decodable image, bytes with an
\* image mimetype that do not decode, a part with another mimetype, a part
\* over the size limit
NoFile == "none"
Uploads == {NoFile, "img", "bad", "text", "huge"}

\* the Authorization header: none, the configured PIN, another PIN
Headers == {"none", "good", "bad"}

\* the inputs of the requests that overlap
RaceBodies == {b \in Bodies : b.title \in {"a", ""}}
RaceUploads == {NoFile, "img", "bad"}

\* config.maxImageSize
maxImageSize == 1024

\* metadata.width and metadata.height of the decoded images: the small
\* sides, the sides around maxImageSize, its multiples, and the sizes the
\* documentation gives as examples
Sides ==
  (1..MaxSide)
    \cup {maxImageSize - MaxSide + k : k \in 0..(2 * MaxSide)}
    \cup {maxImageSize * k : k \in 2..MaxSide}
    \cup {300, 400, 1500, 3000}

\* contents of a file of the image store
NoImg   == "missing"
Jpeg    == "jpeg"
Partial == "partial"


(* ------------------------------------------------------------------ state *)
VARIABLES
  pin,       \* process.env.DUMBDO_PIN is set
  clock,     \* the value Date.now() returns
  doc,       \* the items of data/wishlist.json, as last written in full
  docValid,  \* data/wishlist.json parses (FALSE after a torn write)
  files,     \* files[k]: the content of data/<k>.jpeg
  pc,        \* pc[r]: the await request r is suspended at
  req,       \* req[r]: route, params.id, body and file of request r
  data,      \* data[r]: the handler's local `data` (for delete, `newData`)
  lid,       \* lid[r]: the handler's local `id` (create) or `itemIndex` (update)
  resp,      \* resp[r]: the responses sent for request r, in order
  started,   \* history: the number of requests received
  before,    \* history: document and image store when the request that runs
             \*          alone was received
  dim        \* processImage's metadata.width/height and its locals width/height

vars == <<pin, clock, doc, docValid, files, pc, req, data, lid, resp,
          started, before, dim>>

NoReq == [op |-> "none", id |-> 0, body |-> NoBody, file |-> NoFile]

\* no image is being measured
NoDim == [w |-> 0, h |-> 0, width |-> 0, height |-> 0, at |-> "none"]

NoBefore == [solo |-> FALSE, doc |-> <<>>, docValid |-> TRUE, files |-> [k \in Ids |-> NoImg]]

(* ---------------------------------------------------------------- helpers *)
\* the keys of an item that are copied from req.body
BodyKeys == {"title", "url", "price", "note"}

\* JSON.stringify drops the keys whose value is undefined
StringifyItem(it) ==
  [f \in DOMAIN it |-> IF f \in BodyKeys /\ it[f] = Undef THEN Absent ELSE it[f]]
Stringify(items) == [i \in 1..Len(items) |-> StringifyItem(items[i])]

\* a findIndex that falls back to the first item
FindIndexOrFirst(items, id) ==
  IF \E i \in 1..Len(items) : items[i].id = id
  THEN CHOOSE i \in 1..Len(items) :
         items[i].id = id /\ \A j \in 1..(i-1) : items[j].id # id
  ELSE IF Len(items) > 0 THEN 1 ELSE 0

\* data.findIndex(item => item.id === id), 1-based; 0 stands for -1
FindIndex(items, id) ==
  IF \E i \in 1..Len(items) : items[i].id = id
  THEN CHOOSE i \in 1..Len(items) :
         items[i].id = id /\ \A j \in 1..(i-1) : items[j].id # id
  ELSE 0

\* a filter that keeps every item
KeepAll(it, id) == TRUE

\* data.filter(item => item.id !== id)
KeepOthers(it, id) == it.id # id
Filter(items, id) == SelectSeq(items, LAMBDA it : KeepOthers(it, id))

\* a decoder that trusts the mimetype of the part
DecodesByMimetype(file) == file \in {"img", "bad"}

\* sharp(buffer).metadata() resolves
Decodes(file) == file = "img"

\* multer: fileFilter drops a part whose mimetype is not image/*
FileFilter(file) == IF file = "text" THEN NoFile ELSE file

\* an auth middleware that only looks for the header
AuthOkAnyHeader(h) == ~pin \/ h # "none"

\* the auth middleware lets the request through
AuthOk(h) == ~pin \/ h = "good"

\* a newItem that takes the note from the url
NewItemNoteFromUrl(id, body, image, now) ==
  [id |-> id, title |-> body.title, url |-> body.url, price |-> body.price,
   note |-> body.url, image |-> image, dateAdded |-> now, dateUpdated |-> NoDate]

\* the object literal newItem of the create handler
NewItem(id, body, image, now) ==
  [id |-> id, title |-> body.title, url |-> body.url, price |-> body.price,
   note |-> body.note, image |-> image, dateAdded |-> now, dateUpdated |-> NoDate]

\* an updatedItem that is built anew and stamps dateAdded
UpdatedItemRebuilt(old, body, image, now) ==
  [id |-> old.id, title |-> body.title, url |-> body.url, price |-> body.price,
   note |-> body.note, image |-> image, dateAdded |-> now, dateUpdated |-> now]

\* the object literal updatedItem of the update handler
UpdatedItem(old, body, image, now) ==
  [old EXCEPT !.title = body.title, !.url = body.url, !.price = body.price,
              !.note = body.note, !.image = image, !.dateUpdated = now]

\* a push that puts the new item first
Unshift(items, it) == <<it>> \o items

\* data.push(newItem)
Push(items, it) == Append(items, it)

\* req.body.image || null
CreateImage(body) == IF FalsyImg(body.image) THEN Null ELSE body.image

\* the image default of create, used in update
UpdateImageOrNull(body, old) == IF FalsyImg(body.image) THEN Null ELSE body.image

\* req.body.image || data[itemIndex].image
UpdateImage(body, old) == IF FalsyImg(body.image) THEN old.image ELSE body.image

\* Math.round(num / den) for num >= 0 and den > 0: the nearest integer, the
\* half-way case upwards.  For sides up to 8000 the double the code rounds
\* (side * ratio) rounds to the same integer as the exact quotient.
Round(num, den) == (2 * num + den) \div (2 * den)

\* processImage's width and height as handed to resize(): with
\* ratio = Math.min(maxDimension / width, maxDimension / height), which is
\* maxDimension over the larger side
TargetDims(w, h, maxDimension) ==
  IF w > maxDimension \/ h > maxDimension
  THEN LET larger == IF w >= h THEN w ELSE h
       IN [width  |-> Round(w * maxDimension, larger),
           height |-> Round(h * maxDimension, larger)]
  ELSE [width |-> w, height |-> h]

InFlight(op) == Cardinality({r \in Procs : req[r].op = op /\ pc[r] # "done"})

LongestSnapshot ==
  LET lens == {Len(doc)} \cup {Len(data[r]) : r \in Procs}
  IN CHOOSE n \in lens : \A m \in lens : m <= n

\* admitting one more create keeps every document within MaxItems
Room == LongestSnapshot + InFlight("create") < MaxItems

(* ------------------------------------------------------------------- Init *)
\* the server starts to listen
Listening ==
  /\ pin \in BOOLEAN
  /\ clock = 1
  /\ doc = <<>>
  /\ docValid = TRUE
  /\ files = [k \in Ids |-> NoImg]
  /\ pc = [r \in Procs |-> "idle"]
  /\ req = [r \in Procs |-> NoReq]
  /\ data = [r \in Procs |-> <<>>]
  /\ lid = [r \in Procs |-> 0]
  /\ resp = [r \in Procs |-> <<>>]
  /\ started = 0
  /\ before = NoBefore

Init == Listening /\ dim = NoDim

\* processImage has the metadata of a decoded image
InitDims ==
  /\ Listening
  /\ dim \in {[NoDim EXCEPT !.w = w, !.h = h, !.at = "metadata"] : w \in Sides, h \in Sides}


(* ------------------------------------------------- outcomes of file I/O *)
\* fs.readFile: the content is returned, or the read is rejected
ReadOutcomes == {"ok", "err"}
\* fs.writeFile and sharp's toFile open the target for writing and then
\* write: the call ends with the whole content written, is rejected before
\* anything was written, or is rejected after the target was truncated
WriteOutcomes == {"ok", "err", "torn"}
\* fs.unlink: the file is removed, or the call is rejected with ENOENT
\* (no such file) or with another error (the file stays)
UnlinkOutcomes == {"ok", "ENOENT", "err"}

\* JSON.parse(await fs.readFile(dataFile, 'utf8')) yields the items
ReadsDoc(o) == o = "ok" /\ docValid

\* a writeFile that keeps the items written since the caller's read
WriteDocMerging(o, items) ==
  /\ doc' = IF o = "ok"
            THEN Stringify(items) \o SelectSeq(doc, LAMBDA it :
                   \A i \in 1..Len(items) : StringifyItem(items[i]) # it)
            ELSE IF o = "torn" THEN <<>> ELSE doc
  /\ docValid' = IF o = "ok" THEN TRUE ELSE IF o = "torn" THEN FALSE ELSE docValid

\* await fs.writeFile(dataFile, JSON.stringify(items, null, 2))
WriteDoc(o, items) ==
  /\ doc' = IF o = "ok" THEN Stringify(items) ELSE IF o = "torn" THEN <<>> ELSE doc
  /\ docValid' = IF o = "ok" THEN TRUE ELSE IF o = "torn" THEN FALSE ELSE docValid

\* a toFile that is not awaited: the file is not written yet when the
\* handler goes on
ToFileNotAwaited(o, id) == files' = files

\* sharp(buffer).resize(..).jpeg(..).toFile(path.join(dataDir, `${id}.jpeg`))
ToFile(o, id) ==
  files' = IF o = "ok" THEN [files EXCEPT ![id] = Jpeg]
           ELSE IF o = "torn" THEN [files EXCEPT ![id] = Partial]
           ELSE files

(* ------------------------------------------------------ request plumbing *)
\* slot r takes the next request: the slots are interchangeable, the lowest
\* free one is used
Free(r) == pc[r] = "idle" /\ \A s \in 1..(r-1) : pc[s] # "idle"

\* a request is received: it runs alone if no other request is in flight,
\* and from then on no request in flight runs alone
Receive ==
  /\ started' = started + 1
  /\ before' = IF \A s \in Procs : pc[s] = "idle"
               THEN [solo |-> TRUE, doc |-> doc, docValid |-> docValid, files |-> files]
               ELSE NoBefore

\* request r ends with one response; the handler's locals are gone, and of
\* a request that ended in a server error only the route, the id and the
\* uploaded file are remembered
Finish(r, status, items) ==
  /\ pc' = [pc EXCEPT ![r] = "done"]
  /\ resp' = [resp EXCEPT ![r] = Append(@, [status |-> status, items |-> items])]
  /\ req' = [req EXCEPT ![r] =
               IF status # 500 THEN @
               ELSE [NoReq EXCEPT !.op = req[r].op, !.id = req[r].id, !.file = req[r].file]]
  /\ data' = [data EXCEPT ![r] = <<>>]
  /\ lid' = [lid EXCEPT ![r] = 0]
  /\ UNCHANGED <<started, before>>

\* request r goes on to its next await with locals d and l
Continue(r, at, d, l) ==
  /\ pc' = [pc EXCEPT ![r] = at]
  /\ data' = [data EXCEPT ![r] = d]
  /\ lid' = [lid EXCEPT ![r] = l]
  /\ UNCHANGED <<req, resp, started, before>>

\* a request is rejected before its handler touched anything
Reject(r, op, id, status) ==
  /\ pc' = [pc EXCEPT ![r] = "done"]
  /\ resp' = [resp EXCEPT ![r] = Append(@, [status |-> status, items |-> <<>>])]
  /\ req' = [req EXCEPT ![r] = [NoReq EXCEPT !.op = op, !.id = id]]
  /\ Receive
  /\ UNCHANGED <<data, lid>>

\* the handler of request r runs up to its first await
Admit(r, op, id, body, file, at) ==
  /\ req' = [req EXCEPT ![r] = [op |-> op, id |-> id, body |-> body, file |-> file]]
  /\ pc' = [pc EXCEPT ![r] = at]
  /\ Receive
  /\ UNCHANGED <<data, lid, resp>>

(* ---------------------------------------------------------- environment *)
\* time passes
Tick ==
  /\ clock < MaxClock
  /\ clock' = clock + 1
  /\ UNCHANGED <<pin, doc, docValid, files, pc, req, data, lid, resp, started, before>>

\* the response of request r has been sent; the slot is free again
Return(r) ==
  /\ pc[r] = "done"
  /\ pc' = [pc EXCEPT ![r] = "idle"]
  /\ req' = [req EXCEPT ![r] = NoReq]
  /\ resp' = [resp EXCEPT ![r] = <<>>]
  /\ before' = NoBefore
  /\ UNCHANGED <<pin, clock, doc, docValid, files, data, lid, started>>

(* ------------------------------------------------ GET /api/wishlist (list) *)
ListStart(r) ==
  /\ Free(r)
  /\ Admit(r, "list", 0, NoBody, NoFile, "read")
  /\ UNCHANGED <<pin, clock, doc, docValid, files>>

ListRead(r, o) ==
  /\ pc[r] = "read" /\ req[r].op = "list"
  /\ IF ReadsDoc(o) THEN Finish(r, 200, doc) ELSE Finish(r, 500, <<>>)
  /\ UNCHANGED <<pin, clock, doc, docValid, files>>

(* ----------------------------------- POST /api/wishlist/image/:id (upload) *)
UploadStart(r, h, id, file) ==
  /\ Free(r)
  /\ IF ~AuthOk(h) THEN Reject(r, "upload", id, 401)
     ELSE IF file = "huge" THEN Reject(r, "upload", id, 500)
     ELSE IF FileFilter(file) = NoFile THEN Reject(r, "upload", id, 400)
     ELSE Admit(r, "upload", id, NoBody, FileFilter(file), "meta")
  /\ UNCHANGED <<pin, clock, doc, docValid, files>>

(* ------------------------------------------------------------ processImage *)
\* a processImage that swallows the rejection of metadata(): the handler
\* neither goes on nor answers
MetadataSwallowing(r) ==
  /\ pc[r] = "meta"
  /\ Decodes(req[r].file)
  /\ Continue(r, "tofile", data[r], lid[r])
  /\ UNCHANGED <<pin, clock, doc, docValid, files>>

\* await sharp(buffer).metadata(), for create, update and upload
Metadata(r) ==
  /\ pc[r] = "meta"
  /\ IF Decodes(req[r].file)
     THEN Continue(r, "tofile", data[r], lid[r])
     ELSE Finish(r, 500, <<>>)
  /\ UNCHANGED <<pin, clock, doc, docValid, files>>

\* the id processImage is called with
ImageId(r) ==
  CASE req[r].op = "create" -> lid[r]
    [] req[r].op = "update" -> data[r][lid[r]].id
    [] OTHER -> req[r].id

UploadToFile(r, o) ==
  /\ pc[r] = "tofile" /\ req[r].op = "upload"
  /\ ToFile(o, ImageId(r))
  /\ IF o = "ok" THEN Finish(r, 200, <<>>) ELSE Finish(r, 500, <<>>)
  /\ UNCHANGED <<pin, clock, doc, docValid>>

(* -------------------------------------------- POST /api/wishlist (create) *)
CreateStart(r, h, body, file) ==
  /\ Free(r)
  /\ Room
  /\ IF ~AuthOk(h) THEN Reject(r, "create", 0, 401)
     ELSE IF file = "huge" THEN Reject(r, "create", 0, 500)
     ELSE IF Falsy(body.title) THEN Reject(r, "create", 0, 400)
     ELSE Admit(r, "create", 0, body, FileFilter(file), "read")
  /\ UNCHANGED <<pin, clock, doc, docValid, files>>

\* the read of the document resolves; id = Date.now() and, without a file,
\* newItem and data.push(newItem) follow in the same stretch
CreateRead(r, o) ==
  /\ pc[r] = "read" /\ req[r].op = "create"
  /\ IF ~ReadsDoc(o) THEN Finish(r, 500, <<>>)
     ELSE IF req[r].file = NoFile
     THEN Continue(r, "write",
            Push(doc, NewItem(clock, req[r].body, CreateImage(req[r].body), clock)), clock)
     ELSE Continue(r, "meta", doc, clock)
  /\ UNCHANGED <<pin, clock, doc, docValid, files>>

\* processImage's toFile resolves; newItem and data.push(newItem) follow
CreateToFile(r, o) ==
  /\ pc[r] = "tofile" /\ req[r].op = "create"
  /\ ToFile(o, ImageId(r))
  /\ IF o = "ok"
     THEN Continue(r, "write",
            Push(data[r], NewItem(lid[r], req[r].body, ImageUrl(lid[r]), clock)), lid[r])
     ELSE Finish(r, 500, <<>>)
  /\ UNCHANGED <<pin, clock, doc, docValid>>

CreateWrite(r, o) ==
  /\ pc[r] = "write" /\ req[r].op = "create"
  /\ WriteDoc(o, data[r])
  /\ IF o = "ok"
     THEN Finish(r, 200, <<StringifyItem(data[r][Len(data[r])])>>)
     ELSE Finish(r, 500, <<>>)
  /\ UNCHANGED <<pin, clock, files>>

(* ------------------------------------------ PUT /api/wishlist/:id (update) *)
UpdateStart(r, h, id, body, file) ==
  /\ Free(r)
  /\ IF ~AuthOk(h) THEN Reject(r, "update", id, 401)
     ELSE IF file = "huge" THEN Reject(r, "update", id, 500)
     ELSE IF Falsy(body.title) THEN Reject(r, "update", id, 400)
     ELSE Admit(r, "update", id, body, FileFilter(file), "read")
  /\ UNCHANGED <<pin, clock, doc, docValid, files>>

\* the read of the document resolves; findIndex and, without a file,
\* updatedItem and data[itemIndex] = updatedItem follow in the same stretch
UpdateRead(r, o) ==
  /\ pc[r] = "read" /\ req[r].op = "update"
  /\ LET idx == FindIndex(doc, req[r].id) IN
     IF ~ReadsDoc(o) THEN Finish(r, 500, <<>>)
     ELSE IF idx = 0 THEN Finish(r, 404, <<>>)
     ELSE IF req[r].file = NoFile
     THEN Continue(r, "write",
            [doc EXCEPT ![idx] =
               UpdatedItem(doc[idx], req[r].body, UpdateImage(req[r].body, doc[idx]), clock)],
            idx)
     ELSE Continue(r, "meta", doc, idx)
  /\ UNCHANGED <<pin, clock, doc, docValid, files>>

UpdateToFile(r, o) ==
  /\ pc[r] = "tofile" /\ req[r].op = "update"
  /\ ToFile(o, ImageId(r))
  /\ IF o = "ok"
     THEN Continue(r, "write",
            [data[r] EXCEPT ![lid[r]] = UpdatedItem(@, req[r].body, ImageUrl(@.id), clock)],
            lid[r])
     ELSE Finish(r, 500, <<>>)
  /\ UNCHANGED <<pin, clock, doc, docValid>>

UpdateWrite(r, o) ==
  /\ pc[r] = "write" /\ req[r].op = "update"
  /\ WriteDoc(o, data[r])
  /\ IF o = "ok"
     THEN Finish(r, 200, <<StringifyItem(data[r][lid[r]])>>)
     ELSE Finish(r, 500, <<>>)
  /\ UNCHANGED <<pin, clock, files>>

(* --------------------------------------- DELETE /api/wishlist/:id (delete) *)
DeleteStart(r, h, id) ==
  /\ Free(r)
  /\ IF ~AuthOk(h) THEN Reject(r, "delete", id, 401)
     ELSE Admit(r, "delete", id, NoBody, NoFile, "read")
  /\ UNCHANGED <<pin, clock, doc, docValid, files>>

DeleteRead(r, o) ==
  /\ pc[r] = "read" /\ req[r].op = "delete"
  /\ IF ~ReadsDoc(o) THEN Finish(r, 500, <<>>)
     ELSE Continue(r, "write", Filter(doc, req[r].id), lid[r])
  /\ UNCHANGED <<pin, clock, doc, docValid, files>>

DeleteWrite(r, o) ==
  /\ pc[r] = "write" /\ req[r].op = "delete"
  /\ WriteDoc(o, data[r])
  /\ IF o = "ok" THEN Continue(r, "unlink", <<>>, lid[r]) ELSE Finish(r, 500, <<>>)
  /\ UNCHANGED <<pin, clock, files>>

\* a deleteImage that passes on every rejection but ENOENT
DeleteUnlinkThrowing(r, o) ==
  /\ pc[r] = "unlink"
  /\ o = "ok" => files[req[r].id] # NoImg
  /\ o = "ENOENT" => files[req[r].id] = NoImg
  /\ files' = IF o = "ok" THEN [files EXCEPT ![req[r].id] = NoImg] ELSE files
  /\ IF o = "err" THEN Finish(r, 500, <<>>) ELSE Finish(r, 200, <<>>)
  /\ UNCHANGED <<pin, clock, doc, docValid>>

\* deleteImage: await fs.unlink, every rejection caught; then res.json
DeleteUnlink(r, o) ==
  /\ pc[r] = "unlink"
  /\ o = "ok" => files[req[r].id] # NoImg
  /\ o = "ENOENT" => files[req[r].id] = NoImg
  /\ files' = IF o = "ok" THEN [files EXCEPT ![req[r].id] = NoImg] ELSE files
  /\ Finish(r, 200, <<>>)
  /\ UNCHANGED <<pin, clock, doc, docValid>>

(* ------------------------------------------------------------------- Next *)
\* request r is received, its inputs drawn from bodies Bs and uploads Us
Start(r, Bs, Us) ==
  \/ ListStart(r)
  \/ \E h \in Headers, id \in Ids, file \in Us : UploadStart(r, h, id, file)
  \/ \E h \in Headers, body \in Bs, file \in Us : CreateStart(r, h, body, file)
  \/ \E h \in Headers, id \in Ids, body \in Bs, file \in Us : UpdateStart(r, h, id, body, file)
  \/ \E h \in Headers, id \in Ids : DeleteStart(r, h, id)

\* the I/O request r awaits completes and its handler runs on
Completion(r) ==
  \/ \E o \in ReadOutcomes : ListRead(r, o)
  \/ Metadata(r)
  \/ \E o \in WriteOutcomes : UploadToFile(r, o)
  \/ \E o \in ReadOutcomes : CreateRead(r, o)
  \/ \E o \in WriteOutcomes : CreateToFile(r, o)
  \/ \E o \in WriteOutcomes : CreateWrite(r, o)
  \/ \E o \in ReadOutcomes : UpdateRead(r, o)
  \/ \E o \in WriteOutcomes : UpdateToFile(r, o)
  \/ \E o \in WriteOutcomes : UpdateWrite(r, o)
  \/ \E o \in ReadOutcomes : DeleteRead(r, o)
  \/ \E o \in WriteOutcomes : DeleteWrite(r, o)
  \/ \E o \in UnlinkOutcomes : DeleteUnlink(r, o)

\* one step of request r
Step(r, Bs, Us) ==
  \/ Return(r)
  \/ Start(r, Bs, Us)
  \/ Completion(r)

\* requests overlap
Next ==
  /\ Tick \/ \E r \in Procs : Step(r, RaceBodies, RaceUploads)
  /\ started' <= RaceReqs
  /\ UNCHANGED dim

Spec == Init /\ [][Next]_vars

\* one request at a time: a request starts after the previous one returned
NextSeq ==
  /\ Tick \/ Step(1, Bodies, Uploads)
  /\ started' <= SeqReqs
  /\ UNCHANGED dim

SpecSeq == Init /\ [][NextSeq]_vars

\* overlapping requests whose I/O completes: libuv settles every read,
\* write and unlink, and the event loop runs the continuation of every
\* settled promise
NextLive ==
  /\ Tick \/ \E r \in Procs : Step(r, RaceBodies, RaceUploads)
  /\ started' <= LiveReqs
  /\ UNCHANGED dim

Settles(r) == Completion(r) /\ UNCHANGED dim

SpecLive == Init /\ [][NextLive]_vars /\ \A r \in Procs : WF_vars(Settles(r))

(* -------------------------------------------- processImage's dimensions *)
\* lines 79-87: width and height are computed from the metadata
Dimensions ==
  /\ dim.at = "metadata"
  /\ dim' = [dim EXCEPT !.width  = TargetDims(dim.w, dim.h, maxImageSize).width,
                        !.height = TargetDims(dim.w, dim.h, maxImageSize).height,
                        !.at = "resize"]
  /\ UNCHANGED <<pin, clock, doc, docValid, files, pc, req, data, lid, resp,
                 started, before>>

NextDims == Dimensions

\* the computation of the dimensions, over the images of Sides x Sides
SpecDims == InitDims /\ [][NextDims]_vars


(* ================================================================ claims *)
\* the items of a document, as a set
Items(items) == {items[i] : i \in 1..Len(items)}

\* the last response sent for request r
Last(r) == resp[r][Len(resp[r])]

\* request r ran alone and has answered
DoneAlone(r) == pc[r] = "done" /\ before.solo

(* C1: no two items of the document have the same id. *)
C1_UniqueIds ==
  \A i, j \in 1..Len(doc) : i # j => doc[i].id # doc[j].id

(* C2: every item whose image is not null refers to a file that exists in  *)
(* the image store.                                                        *)
C2_NoDanglingImage ==
  \A i \in 1..Len(doc) :
    doc[i].image # Null => files[RefFile(doc[i].image)] # NoImg

(* C3: a write of the document replaces the whole document by the writer's *)
(* own snapshot, whatever was written since the writer read it; so a create *)
(* that answered success can be missing from the document with no delete   *)
(* ever received (the witness).                                            *)
C3_LastWriterWins ==
  [][\A r \in Procs :
       (/\ pc[r] = "write"
        /\ \/ pc'[r] = "unlink"
           \/ pc'[r] = "done" /\ resp'[r][Len(resp'[r])].status = 200)
       => /\ docValid'
          /\ doc' = Stringify(data[r])
          /\ \A it \in Items(doc) : it \notin Items(Stringify(data[r])) => it \notin Items(doc')]_vars

C3_LostCreate ==
  /\ started = 2
  /\ docValid
  /\ \A r \in {1, 2} : pc[r] = "done" /\ req[r].op = "create" /\ Last(r).status = 200
  /\ \E r \in {1, 2} : Last(r).items[1] \notin Items(doc)

(* C4: when create, update, delete or image upload ends in an error, the   *)
(* document and every image file are as they were when the request was     *)
(* received.                                                               *)
C4_FailsAtomically ==
  \A r \in Procs :
    (DoneAlone(r) /\ Last(r).status >= 400
       /\ req[r].op \in {"create", "update", "delete", "upload"})
    => /\ doc = before.doc
       /\ docValid = before.docValid
       /\ files = before.files


(* C5: delete(id) is idempotent: a delete that ran alone answers success,  *)
(* leaves no item with that id (so the same delete right after it changes  *)
(* nothing), changes nothing when no item had that id, and shrinks the     *)
(* collection by at most one.                                              *)
C5_DeleteIdempotent ==
  \A r \in Procs :
    (DoneAlone(r) /\ req[r].op = "delete" /\ Last(r).status = 200)
    => /\ \A i \in 1..Len(doc) : doc[i].id # req[r].id
       /\ (\A i \in 1..Len(before.doc) : before.doc[i].id # req[r].id) => doc = before.doc
       /\ Len(doc) >= Len(before.doc) - 1

(* C6: an update that ran alone and answered success leaves the item's id  *)
(* and dateAdded as they were and sets dateUpdated; and an item carries a   *)
(* dateUpdated only if such an update put it there.                        *)
C6_UpdateKeepsIdentity ==
  \A r \in Procs :
    DoneAlone(r) =>
      LET hit == req[r].op = "update" /\ Last(r).status = 200
          at  == CHOOSE i \in 0..Len(before.doc) :
                   /\ i > 0 => before.doc[i].id = req[r].id
                   /\ \A j \in 1..Len(before.doc) : before.doc[j].id = req[r].id => 0 < i /\ i <= j
      IN /\ hit => /\ at > 0
                   /\ docValid
                   /\ Len(doc) = Len(before.doc)
                   /\ doc[at].id = before.doc[at].id
                   /\ doc[at].dateAdded = before.doc[at].dateAdded
                   /\ doc[at].dateUpdated # NoDate
                   /\ Last(r).items = <<doc[at]>>
         /\ \A j \in 1..Len(doc) :
              (doc[j].dateUpdated # NoDate /\ ~(hit /\ j = at)) => doc[j] \in Items(before.doc)

C6_Updated ==
  \E r \in Procs :
    /\ DoneAlone(r) /\ req[r].op = "update" /\ Last(r).status = 200
    /\ \E i \in 1..Len(doc) :
         /\ doc[i].id = req[r].id
         /\ doc[i].dateUpdated # NoDate
         /\ doc[i].dateAdded < doc[i].dateUpdated
         /\ doc[i] \notin Items(before.doc)


(* C7: after a create that ran alone and answered success the document is  *)
(* the previous one with the new item at the end; the item has the title,  *)
(* url, price and note that were sent, and a null image when neither a     *)
(* file nor a reference was sent; a list that runs alone answers the       *)
(* document and leaves it as it is.                                        *)
C7_CreateThenList ==
  \A r \in Procs :
    (DoneAlone(r) /\ Last(r).status = 200) =>
      /\ req[r].op = "create" =>
           /\ Len(Last(r).items) = 1
           /\ docValid
           /\ doc = Append(before.doc, Last(r).items[1])
           /\ \A f \in {"title", "url", "price", "note"} :
                req[r].body[f] = IF Last(r).items[1][f] = Absent
                                 THEN Undef ELSE Last(r).items[1][f]
           /\ (req[r].file = NoFile /\ req[r].body.image \in {ImgUndef, ImgEmpty})
                => Last(r).items[1].image = Null
      /\ req[r].op = "list" =>
           /\ docValid
           /\ Last(r).items = doc
           /\ doc = before.doc

C7_Appended ==
  \E r \in Procs :
    /\ DoneAlone(r) /\ req[r].op = "create" /\ Last(r).status = 200
    /\ req[r].file = NoFile /\ req[r].body.image = ImgUndef
    /\ Len(before.doc) = 1
    /\ doc = Append(before.doc, Last(r).items[1])
    /\ doc[2].image = Null /\ doc[2].note = "n"

C9_EmptyTitleRejected ==
  [][\A r \in Procs :
       (pc[r] = "idle" /\ pc'[r] # "idle") =>
         \A h \in Headers, id \in Ids, b \in Bodies, f \in Uploads :
           (/\ b.title \in {"", Undef}
            /\ ~pin \/ h = "good"
            /\ f # "huge"
            /\ CreateStart(r, h, b, f) \/ UpdateStart(r, h, id, b, f))
           => /\ pc'[r] = "done"
              /\ resp'[r] = <<[status |-> 400, items |-> <<>>]>>
              /\ doc' = doc /\ docValid' = docValid /\ files' = files]_vars

C9_Rejected ==
  \E r \in Procs :
    /\ pc[r] = "done" /\ req[r].op \in {"create", "update"} /\ Last(r).status = 400
    /\ before.solo
    /\ Len(doc) > 0
    /\ doc = before.doc /\ files = before.files

(* C10: an update with a valid title whose id matches no item of the       *)
(* document it read answers 404; no item is added, and the document and    *)
(* the image store are not touched, also when a file came with the request. *)
C10_UpdateNotFound ==
  [][\A r \in Procs :
       (/\ UpdateRead(r, "ok")
        /\ docValid
        /\ \A i \in 1..Len(doc) : doc[i].id # req[r].id)
       => /\ pc'[r] = "done"
          /\ resp'[r] = <<[status |-> 404, items |-> <<>>]>>
          /\ doc' = doc /\ docValid' = docValid /\ files' = files]_vars

C10_NotFound ==
  \E r \in Procs :
    /\ DoneAlone(r) /\ req[r].op = "update" /\ Last(r).status = 404
    /\ req[r].file = "img"
    /\ Len(doc) > 0
    /\ doc = before.doc /\ files = before.files

(* C11: the order of the collection is stable.  After an update that ran   *)
(* alone and answered success the document has its previous length and     *)
(* every item but the one at the position of the id is as it was; after a  *)
(* delete that ran alone, answered success and whose id was present, the   *)
(* document is the previous one with exactly one element taken out.        *)
C11_OrderStable ==
  \A r \in Procs :
    (DoneAlone(r) /\ Last(r).status = 200) =>
      /\ req[r].op = "update" =>
           /\ Len(doc) = Len(before.doc)
           /\ \E i \in 1..Len(doc) :
                /\ before.doc[i].id = req[r].id
                /\ doc[i].id = req[r].id
                /\ \A j \in 1..Len(doc) : j # i => doc[j] = before.doc[j]
      /\ (req[r].op = "delete" /\ \E i \in 1..Len(before.doc) : before.doc[i].id = req[r].id) =>
           \E i \in 1..Len(before.doc) :
             /\ before.doc[i].id = req[r].id
             /\ doc = SubSeq(before.doc, 1, i-1) \o SubSeq(before.doc, i+1, Len(before.doc))

C13_BadBytesRejected ==
  [][\A r \in Procs :
       /\ (pc[r] = "meta" /\ pc'[r] # "meta" /\ req[r].file = "bad")
            => /\ pc'[r] = "done"
               /\ resp'[r] = <<[status |-> 500, items |-> <<>>]>>
               /\ doc' = doc /\ docValid' = docValid /\ files' = files
       /\ req'[r].file = "bad" => pc'[r] \notin {"tofile", "write", "unlink"}
       /\ (pc'[r] = "done" /\ before'.solo /\ req'[r].file = "bad")
            => /\ resp'[r][Len(resp'[r])].status >= 400
               /\ doc' = before'.doc /\ docValid' = before'.docValid
               /\ files' = before'.files]_vars

C13_NotAnImage ==
  \E r \in Procs :
    /\ DoneAlone(r) /\ req[r].op = "upload" /\ req[r].file = "bad"
    /\ Last(r).status = 500
    /\ files[req[r].id] = Jpeg
    /\ Len(doc) > 0
    /\ doc = before.doc /\ files = before.files

(* C14: for an image of w x h (both at least 1) and maxDimension M, the    *)
(* dimensions computed are w x h when both fit in M; otherwise the larger  *)
(* one is M, the smaller one is the nearest integer to the value that      *)
(* keeps the aspect ratio and is at least 1, and both are at most M.       *)
C14_TargetDimensions ==
  dim.at = "resize" =>
    LET M == maxImageSize
        big      == IF dim.w >= dim.h THEN dim.w ELSE dim.h
        small    == IF dim.w >= dim.h THEN dim.h ELSE dim.w
        outBig   == IF dim.w >= dim.h THEN dim.width ELSE dim.height
        outSmall == IF dim.w >= dim.h THEN dim.height ELSE dim.width
    IN IF dim.w <= M /\ dim.h <= M
       THEN dim.width = dim.w /\ dim.height = dim.h
       ELSE /\ outBig = M
            /\ 2 * (outSmall * big - small * M) <= big
            /\ 2 * (small * M - outSmall * big) <= big
            /\ outSmall >= 1
            /\ dim.width <= M /\ dim.height <= M

(* C15: after an update that ran alone and answered success, the item has  *)
(* the image it had before when neither a file nor a non-empty image       *)
(* reference was sent; it has the reference that was sent when one was     *)
(* sent without a file, and the reference of the stored file when a file   *)
(* was sent.                                                               *)
C15_UpdateKeepsImage ==
  \A r \in Procs :
    (DoneAlone(r) /\ req[r].op = "update" /\ Last(r).status = 200) =>
      \E at \in 1..Len(before.doc) :
        /\ before.doc[at].id = req[r].id
        /\ \A j \in 1..(at - 1) : before.doc[j].id # req[r].id
        /\ Len(doc) = Len(before.doc)
        /\ LET sent == req[r].body.image
               new  == doc[at].image
           IN /\ (req[r].file = NoFile /\ sent \in {ImgUndef, ImgEmpty})
                   => new = before.doc[at].image
              /\ (req[r].file = NoFile /\ sent \notin {ImgUndef, ImgEmpty}) => new = sent
              /\ req[r].file # NoFile => new = ImageUrl(req[r].id)

C15_ImageKept ==
  \E r \in Procs :
    /\ DoneAlone(r) /\ req[r].op = "update" /\ Last(r).status = 200
    /\ req[r].file = NoFile /\ req[r].body.image = ImgUndef
    /\ \E i \in 1..Len(doc) :
         /\ doc[i].id = req[r].id
         /\ doc[i].image = ImageUrl(req[r].id)
         /\ before.doc[i].image = doc[i].image
         /\ before.doc[i].title # doc[i].title

(* C16: the removal of the image is best effort.  When the delete that     *)
(* runs alone fails to remove the file (there was none, or the file is     *)
(* still there afterwards), it answers success all the same, the document  *)
(* holds no item of that id, and the image store is as it was.             *)
C16_CleanupBestEffort ==
  [][\A r \in Procs :
       (/\ pc[r] = "unlink" /\ pc'[r] # "unlink"
        /\ before.solo
        /\ files[req[r].id] = NoImg \/ files'[req[r].id] # NoImg)
       => /\ pc'[r] = "done"
          /\ resp'[r][Len(resp'[r])].status = 200
          /\ Len(resp'[r]) = 1
          /\ docValid'
          /\ \A i \in 1..Len(doc') : doc'[i].id # req[r].id
          /\ files' = files]_vars

C16_CleanupFailed ==
  \E r \in Procs :
    /\ DoneAlone(r) /\ req[r].op = "delete" /\ Last(r).status = 200
    /\ \E i \in 1..Len(before.doc) : before.doc[i].id = req[r].id
    /\ files[req[r].id] = Jpeg
    /\ files = before.files
    /\ docValid
    /\ \A i \in 1..Len(doc) : doc[i].id # req[r].id

(* C17: with a clock that never goes back, the ids of the document, read   *)
(* in the order of the collection, never decrease, whatever creates,       *)
(* updates and deletes overlap.                                            *)
C17_IdsNonDecreasing ==
  \A i, j \in 1..Len(doc) : i < j => doc[i].id <= doc[j].id

C17_Overlapped ==
  /\ Len(doc) = 2 /\ doc[1].id < doc[2].id
  /\ pc[1] = "write" /\ req[1].op = "update" /\ Len(data[1]) = 1
  /\ pc[2] = "done" /\ req[2].op = "create" /\ Last(2).status = 200

(* C18: a deleted item stays deleted.  Once a delete(id) has answered      *)
(* success and the document holds no item of that id, an item of that id   *)
(* comes into the document only as the new item of a create that was       *)
(* assigned that id, also when requests that read the document before the  *)
(* delete wrote it write afterwards.                                       *)
C18_DeletedStaysDeleted ==
  [][\A r \in Procs :
       (/\ pc[r] = "done" /\ pc'[r] = "done"
        /\ req[r].op = "delete" /\ Last(r).status = 200
        /\ \A i \in 1..Len(doc) : doc[i].id # req[r].id
        /\ \E i \in 1..Len(doc') : doc'[i].id = req[r].id)
       => \E s \in Procs :
            /\ pc[s] = "write" /\ pc'[s] = "done"
            /\ req[s].op = "create" /\ lid[s] = req[r].id
            /\ \A i \in 1..(Len(data[s]) - 1) : data[s][i].id # req[r].id]_vars

(* C19: the order of the writes.  A create or update that carries a file   *)
(* comes to the write of the document only from the write of the image,    *)
(* with <id>.jpeg written in full and the document not yet touched; when   *)
(* the write of the image fails the request ends there and the document    *)
(* stays as it is; the document changes only in the write step of some     *)
(* request.  A file of the image store is removed only by a delete of that *)
(* id that has written the document without the item; a delete whose read  *)
(* or write of the document fails ends with the image store untouched.     *)
C19_WriteOrder ==
  [][\A r \in Procs :
       /\ (req[r].file # NoFile /\ req[r].op \in {"create", "update"}
             /\ pc[r] # "write" /\ pc'[r] = "write")
            => /\ pc[r] = "tofile"
               /\ files'[ImageId(r)] = Jpeg
               /\ doc' = doc /\ docValid' = docValid
       /\ (req[r].op \in {"create", "update"} /\ pc[r] = "tofile"
             /\ pc'[r] \notin {"tofile", "write"})
            => /\ pc'[r] = "done"
               /\ resp'[r][Len(resp'[r])].status = 500
               /\ doc' = doc /\ docValid' = docValid
       /\ (doc' # doc \/ docValid' # docValid)
            => \E s \in Procs : pc[s] = "write" /\ pc'[s] # "write"
       /\ (pc[r] # "unlink" /\ pc'[r] = "unlink")
            => /\ pc[r] = "write" /\ req[r].op = "delete"
               /\ docValid'
               /\ \A i \in 1..Len(doc') : doc'[i].id # req[r].id
               /\ files' = files
       /\ \A k \in Ids :
            (files[k] # NoImg /\ files'[k] = NoImg)
              => \E s \in Procs : pc[s] = "unlink" /\ pc'[s] = "done" /\ req[s].id = k
       /\ (req[r].op = "delete" /\ pc[r] \in {"read", "write"} /\ pc'[r] = "done")
            => /\ resp'[r][Len(resp'[r])].status = 500
               /\ files' = files]_vars

C19_ImageBeforeDocument ==
  \E r \in Procs :
    /\ pc[r] = "write" /\ req[r].op = "create" /\ req[r].file = "img"
    /\ files[lid[r]] = Jpeg
    /\ Len(doc) > 0
    /\ \A i \in 1..Len(doc) : doc[i].image # ImageUrl(lid[r])
    /\ data[r][Len(data[r])].image = ImageUrl(lid[r])

(* C20: every request gets exactly one response.  No request ever has two  *)
(* responses, a request has answered exactly when it has one, and with     *)
(* I/O that completes every request that was received comes to its         *)
(* response, whatever path it takes.                                       *)
C20_OneResponse ==
  /\ [](\A r \in Procs : /\ Len(resp[r]) <= 1
                         /\ pc[r] = "done" <=> Len(resp[r]) = 1)
  /\ \A r \in Procs : (pc[r] # "idle") ~> (pc[r] = "done" /\ Len(resp[r]) = 1)

C20_BothAnswered ==
  /\ started = LiveReqs
  /\ \E r, s \in Procs :
       /\ pc[r] = "done" /\ Len(resp[r]) = 1 /\ Last(r).status = 200
       /\ pc[s] = "done" /\ Len(resp[s]) = 1 /\ Last(s).status = 500

====
